---- MODULE Spec2Model ----
(***************************************************************************)
(* Model of src/auth-api.js: an Express authentication API with an         *)
(* in-memory user array, bcrypt password hashes and JWT bearer tokens.     *)
(*                                                                         *)
(* Node.js runs each handler on one event loop: a handler runs without     *)
(* interruption up to its next `await` (or its return), so every action    *)
(* below is one such uninterrupted run of a handler.  Several requests may *)
(* be suspended at their `await` at the same time.                         *)
(***************************************************************************)
EXTENDS Integers, Sequences, FiniteSets, TLC

VARIABLES users, req, last, now, ticks, issued, registered

vars == <<users, req, last, now, ticks, issued, registered>>

(* ------------------------------ bounds --------------------------------- *)

\* number of requests that can be suspended at an `await` at once
NReq == 2
\* the store holds at most this many accounts
MaxUsers == 2
\* clients hold at most this many distinct issued tokens
MaxTokens == 1
\* the clock advances at most this many times
MaxTicks == 2

Reqs == 1..NReq

(* --------------------------- program constants ------------------------- *)

JWT_SECRET == "clave_secreta_jwt"
\* expiresIn: '1h', in seconds
TTL == 3600
\* bcrypt.hash(password, 10)
SaltRounds == 10

(* ------------------------------- inputs -------------------------------- *)

\* "" stands for a missing or empty field (both are falsy in `!username`)
Usernames == {"", "alice", "bob"}
Passwords == {"", "s3cret!", "wrong"}
\* the salts bcrypt.hash may generate (a hash embeds the salt it was made with)
Salts == {"saltA"}
\* the clock jumps by one second or by one second less than the token lifetime
Jumps == {1, TTL - 1}

(* ------------------------------- bcrypt -------------------------------- *)

NoHash == [cost |-> 0, salt |-> "", digest |-> <<"", "">>]

\* bcrypt.hash(password, rounds) with the salt it generated
BcryptHash(p, rounds, s) == [cost |-> rounds, salt |-> s, digest |-> <<s, p>>]

\* bcrypt.compare(password, hash): re-hash with the embedded salt and compare
BcryptCompare(p, h) == h.cost > 0 /\ h.digest = <<h.salt, p>>

(* ---------------------------- account store ---------------------------- *)

NoUser == [id |-> 0, username |-> "", password |-> NoHash]

\* a find callback that never looks at the first record
FindSkipsFirst(us, u) ==
    LET S == {i \in 2..Len(us) : us[i].username = u}
    IN  IF S = {} THEN NoUser ELSE us[CHOOSE i \in S : \A j \in S : i <= j]

\* users.find(user => user.username === username): the FIRST match, or undefined
Find(us, u) ==
    LET S == {i \in 1..Len(us) : us[i].username = u}
    IN  IF S = {} THEN NoUser ELSE us[CHOOSE i \in S : \A j \in S : i <= j]

\* an id counted from the last index instead of the length
NextIdFromIndex(us) == IF us = <<>> THEN 1 ELSE Len(us)

\* id: users.length + 1, evaluated when the record is pushed
NextId(us) == Len(us) + 1

\* users.unshift: the new record goes in front of the others
PushFront(us, u, h) == <<[id |-> NextId(us), username |-> u, password |-> h]>> \o us

\* users.push({ id, username, password: hashedPassword })
Push(us, u, h) == Append(us, [id |-> NextId(us), username |-> u, password |-> h])

\* a validation that forgets the password
InvalidUsernameOnly(u, p) == u = ""

\* !username || !password
Invalid(u, p) == u = "" \/ p = ""

(* -------------------------------- tokens ------------------------------- *)

NoClaims == [id |-> 0, username |-> "", iat |-> 0, exp |-> 0]

\* a MAC that leaves the expiry out of what it signs
SignWithoutExp(c, secret) == <<secret, c.id, c.username, c.iat, 0>>

\* the keyed MAC over the whole claim set
Sign(c, secret) == <<secret, c.id, c.username, c.iat, c.exp>>

\* a token is three segments: header, claims, signature
MkToken(c, sig) ==
    [segs |-> 3, id |-> c.id, username |-> c.username, iat |-> c.iat,
     exp |-> c.exp, sig |-> sig]

Claims(tok) == [id |-> tok.id, username |-> tok.username, iat |-> tok.iat, exp |-> tok.exp]

\* a string that is not three segments
Garbage == [segs |-> 1, id |-> 0, username |-> "", iat |-> 0, exp |-> 0,
            sig |-> Sign(NoClaims, "")]
\* token.split(' ')[1] of a header without a space
Undefined == [segs |-> 0, id |-> 0, username |-> "", iat |-> 0, exp |-> 0,
              sig |-> Sign(NoClaims, "")]
NoToken == Undefined

\* jwt.sign({ id, username }, secret, { expiresIn: '1h' }) at clock t
JwtSign(id, u, secret, t) ==
    LET c == [id |-> id, username |-> u, iat |-> t, exp |-> t + TTL]
    IN  MkToken(c, Sign(c, secret))

\* a verifier that never looks at the expiry (ignoreExpiration)
JwtVerifyNoExpiry(tok, secret, t) ==
    IF tok.segs # 3 THEN [ok |-> FALSE, err |-> "Malformed", claims |-> NoClaims]
    ELSE IF tok.sig # Sign(Claims(tok), secret)
        THEN [ok |-> FALSE, err |-> "InvalidSignature", claims |-> NoClaims]
    ELSE [ok |-> TRUE, err |-> "", claims |-> Claims(tok)]

\* a verifier that compares the clock with the issue time instead of the expiry
JwtVerifyAgainstIat(tok, secret, t) ==
    IF tok.segs # 3 THEN [ok |-> FALSE, err |-> "Malformed", claims |-> NoClaims]
    ELSE IF tok.sig # Sign(Claims(tok), secret)
        THEN [ok |-> FALSE, err |-> "InvalidSignature", claims |-> NoClaims]
    ELSE IF t > tok.iat THEN [ok |-> FALSE, err |-> "Expired", claims |-> NoClaims]
    ELSE [ok |-> TRUE, err |-> "", claims |-> Claims(tok)]

\* jwt.verify(token, secret) at clock t: parse, then signature, then expiry
JwtVerify(tok, secret, t) ==
    IF tok.segs # 3 THEN [ok |-> FALSE, err |-> "Malformed", claims |-> NoClaims]
    ELSE IF tok.sig # Sign(Claims(tok), secret)
        THEN [ok |-> FALSE, err |-> "InvalidSignature", claims |-> NoClaims]
    ELSE IF t >= tok.exp THEN [ok |-> FALSE, err |-> "Expired", claims |-> NoClaims]
    ELSE [ok |-> TRUE, err |-> "", claims |-> Claims(tok)]

(* ------------------------------- headers ------------------------------- *)

NoHeader == [kind |-> "absent", tok |-> Undefined]
Bearer(t) == [kind |-> "bearer", tok |-> t]

OtherName(u) == IF u = "alice" THEN "bob" ELSE "alice"

\* what an attacker can make of a token it holds
Tamper(t) ==
    { [t EXCEPT !.exp = t.exp + TTL],
      [t EXCEPT !.id = t.id + 1],
      [t EXCEPT !.username = OtherName(t.username)],
      [t EXCEPT !.sig = Sign(Claims(t), "otro_secreto")],
      [t EXCEPT !.sig = Sign(Claims(t), "")] }

\* req.headers['authorization']
Headers ==
    {NoHeader, [kind |-> "nospace", tok |-> Undefined], Bearer(Garbage)}
    \cup {Bearer(t) : t \in issued}
    \cup {Bearer(t) : t \in UNION {Tamper(x) : x \in issued}}

(* ------------------------------ responses ------------------------------ *)

Res(status, message) ==
    [status |-> status, message |-> message, token |-> NoToken, user |-> NoClaims]

NoRes == Res(0, "")

RegisterInvalidRes == Res(400, "Se requiere usuario y contraseña")
RegisterExistsRes == Res(409, "El usuario ya existe")
RegisterOkRes == Res(201, "Usuario registrado exitosamente")
InternalRes == Res(500, "Error interno del servidor")
LoginInvalidRes == Res(400, "Se requiere usuario y contraseña")
\* a lookup miss that says so
LoginNoUserSaysSo == Res(404, "Usuario no encontrado")
LoginNoUserRes == Res(401, "Error en la autenticación")
LoginBadPasswordRes == Res(401, "Error en la autenticación")
LoginOkRes(tok) == [Res(200, "Autenticación satisfactoria") EXCEPT !.token = tok]
NoTokenRes == Res(403, "Token no proporcionado")
BadTokenRes == Res(401, "Token inválido")
ProtectedRes(c) == [Res(200, "Ruta protegida accedida exitosamente") EXCEPT !.user = c]

(* ------------------------------- requests ------------------------------ *)

\* what a request saw of earlier successful registrations when it arrived:
\* user = its username had been registered, cred = with exactly its password
NoPrior == [user |-> FALSE, cred |-> FALSE]

RECURSIVE Names(_)
Names(log) == IF log = <<>> THEN {} ELSE {Head(log)[1]} \cup Names(Tail(log))

RECURSIVE Pairs(_)
Pairs(log) == IF log = <<>> THEN {} ELSE {Head(log)} \cup Pairs(Tail(log))

Prior(u, p) == [user |-> u \in Names(registered), cred |-> <<u, p>> \in Pairs(registered)]

\* a request suspended at its `await`, with the locals it resumes with
Idle ==
    [pc |-> "idle", username |-> "", password |-> "", user |-> NoUser,
     prior |-> NoPrior]

\* the request that completed most recently, and the response it was sent
Done(op, u, p, h, user, prior, threw, changed, res) ==
    [op |-> op, username |-> u, password |-> p, header |-> h, user |-> user,
     prior |-> prior, threw |-> threw, changed |-> changed,
     at |-> IF op = "authorize" THEN now ELSE 0, res |-> res]

NoDone == [op |-> "none", username |-> "", password |-> "", header |-> NoHeader,
           user |-> NoUser, prior |-> NoPrior, threw |-> FALSE, changed |-> FALSE,
           at |-> 0, res |-> NoRes]

Pending(pc) == Cardinality({r \in Reqs : req[r].pc = pc})

\* a server that takes a new request only when no handler is waiting (as with
\* bcrypt.hashSync, which keeps the event loop busy until the hash is done)
FreeWhenQuiet(r) == \A q \in Reqs : req[q].pc = "idle" /\ q >= r

\* an arriving request takes the first free slot (slots are interchangeable)
Free(r) == req[r].pc = "idle" /\ \A q \in Reqs : q < r => req[q].pc # "idle"

Init ==
    /\ users = <<>>
    /\ req = [r \in Reqs |-> Idle]
    /\ last = NoDone
    /\ now = 0
    /\ ticks = 0
    /\ issued = {}
    /\ registered = <<>>

\* POST /api/register up to `await bcrypt.hash`
RegisterStart(r, u, p) ==
    /\ Free(r)
    /\ IF Invalid(u, p)
         THEN /\ last' = Done("register", u, p, NoHeader, NoUser, Prior(u, p),
                              FALSE, FALSE, RegisterInvalidRes)
              /\ UNCHANGED req
       ELSE IF Find(users, u) # NoUser
         THEN /\ last' = Done("register", u, p, NoHeader, NoUser, Prior(u, p),
                              FALSE, FALSE, RegisterExistsRes)
              /\ UNCHANGED req
       ELSE /\ Len(users) + Pending("hashing") < MaxUsers
            /\ req' = [req EXCEPT ![r] = [Idle EXCEPT !.pc = "hashing", !.username = u,
                                                      !.password = p,
                                                      !.prior = Prior(u, p)]]
            /\ UNCHANGED last
    /\ UNCHANGED <<users, now, ticks, issued, registered>>

\* a push placed before the `await`, so that it happens even when the hash throws
UsersPushedAnyway(us, u, h, ok) == Push(us, u, h)

\* the store after bcrypt.hash settled: the push is skipped when it threw
UsersAfterHash(us, u, h, ok) == IF ok THEN Push(us, u, h) ELSE us

\* the response of register after bcrypt.hash settled
RegisterRes(ok) == IF ok THEN RegisterOkRes ELSE InternalRes

\* POST /api/register after `await bcrypt.hash`: push and 201, or catch and 500
RegisterResume(r) ==
    /\ req[r].pc = "hashing"
    /\ \E ok \in BOOLEAN, s \in Salts :
         LET u == req[r].username
             p == req[r].password
         IN  /\ users' = UsersAfterHash(users, u, BcryptHash(p, SaltRounds, s), ok)
             /\ last' = Done("register", u, p, NoHeader, NoUser, req[r].prior,
                             ~ok, users' # users, RegisterRes(ok))
             /\ registered' = IF RegisterRes(ok).status = 201
                                THEN Append(registered, <<u, p>>) ELSE registered
    /\ req' = [req EXCEPT ![r] = Idle]
    /\ UNCHANGED <<now, ticks, issued>>

\* POST /api/login up to `await bcrypt.compare`
LoginStart(r, u, p) ==
    /\ Free(r)
    /\ LET user == Find(users, u)
       IN  IF Invalid(u, p)
             THEN /\ last' = Done("login", u, p, NoHeader, NoUser, Prior(u, p),
                                  FALSE, FALSE, LoginInvalidRes)
                  /\ UNCHANGED req
           ELSE IF user = NoUser
             THEN /\ last' = Done("login", u, p, NoHeader, NoUser, Prior(u, p),
                                  FALSE, FALSE, LoginNoUserRes)
                  /\ UNCHANGED req
           ELSE /\ req' = [req EXCEPT ![r] = [Idle EXCEPT !.pc = "comparing",
                                                          !.username = u, !.password = p,
                                                          !.user = user,
                                                          !.prior = Prior(u, p)]]
                /\ UNCHANGED last
    /\ UNCHANGED <<users, now, ticks, issued, registered>>

\* a handler that forgets to test the result of the comparison
LoginResSkipsCompare(user, p, ok, t) ==
    IF ~ok THEN InternalRes
    ELSE LoginOkRes(JwtSign(user.id, user.username, JWT_SECRET, t))

\* a catch block that reports a thrown comparison as a failed authentication
LoginResThrowIs401(user, p, ok, t) ==
    IF ~ok THEN LoginBadPasswordRes
    ELSE IF ~BcryptCompare(p, user.password) THEN LoginBadPasswordRes
    ELSE LoginOkRes(JwtSign(user.id, user.username, JWT_SECRET, t))

\* the response of login after bcrypt.compare settled, at clock t
LoginRes(user, p, ok, t) ==
    IF ~ok THEN InternalRes
    ELSE IF ~BcryptCompare(p, user.password) THEN LoginBadPasswordRes
    ELSE LoginOkRes(JwtSign(user.id, user.username, JWT_SECRET, t))

\* a handler that answers 500 when the comparison throws and then waits for
\* the comparison again instead of returning
LoginResumeRetries(r) ==
    /\ req[r].pc = "comparing"
    /\ \E ok \in BOOLEAN :
         LET res == LoginRes(req[r].user, req[r].password, ok, now)
         IN  /\ res.token # NoToken =>
                  (res.token \in issued \/ Cardinality(issued) < MaxTokens)
             /\ last' = Done("login", req[r].username, req[r].password, NoHeader,
                             req[r].user, req[r].prior, ~ok, FALSE, res)
             /\ issued' = IF res.token # NoToken THEN issued \cup {res.token} ELSE issued
             /\ req' = IF ok THEN [req EXCEPT ![r] = Idle] ELSE req
    /\ UNCHANGED <<users, now, ticks, registered>>

\* POST /api/login after `await bcrypt.compare`
LoginResume(r) ==
    /\ req[r].pc = "comparing"
    /\ \E ok \in BOOLEAN :
         LET res == LoginRes(req[r].user, req[r].password, ok, now)
         IN  /\ res.token # NoToken =>
                  (res.token \in issued \/ Cardinality(issued) < MaxTokens)
             /\ last' = Done("login", req[r].username, req[r].password, NoHeader,
                             req[r].user, req[r].prior, ~ok, FALSE, res)
             /\ issued' = IF res.token # NoToken THEN issued \cup {res.token} ELSE issued
    /\ req' = [req EXCEPT ![r] = Idle]
    /\ UNCHANGED <<users, now, ticks, registered>>

\* a middleware that lets an expired token through to the handler
AuthorizeResRunsExpired(h, secret, t) ==
    IF h.kind = "absent" THEN NoTokenRes
    ELSE LET v == JwtVerify(h.tok, secret, t)
         IN  IF v.ok \/ v.err = "Expired"
               THEN ProtectedRes(Claims(h.tok)) ELSE BadTokenRes

\* verifyToken followed by the protected handler, at clock t
AuthorizeRes(h, secret, t) ==
    IF h.kind = "absent" THEN NoTokenRes
    ELSE LET v == JwtVerify(h.tok, secret, t)
         IN  IF v.ok THEN ProtectedRes(v.claims) ELSE BadTokenRes

\* a middleware that also looks the token's user up in the store
ProtegidoChecksStore(us, h, secret, t) ==
    LET a == AuthorizeRes(h, secret, t)
    IN  IF a.status = 200 /\ Find(us, a.user.username) = NoUser THEN BadTokenRes ELSE a

\* the response of GET /api/protegido with the module's store in scope: neither
\* verifyToken nor the handler reads `users`
Protegido(us, h, secret, t) == AuthorizeRes(h, secret, t)

\* GET /api/protegido
Authorize(h) ==
    /\ last' = Done("authorize", "", "", h, NoUser, NoPrior, FALSE, FALSE,
                    Protegido(users, h, JWT_SECRET, now))
    /\ UNCHANGED <<users, req, now, ticks, issued, registered>>

\* the wall clock, in seconds
Tick(d) ==
    /\ ticks < MaxTicks
    /\ now' = now + d
    /\ ticks' = ticks + 1
    /\ UNCHANGED <<users, req, last, issued, registered>>

Next ==
    \/ \E r \in Reqs, u \in Usernames, p \in Passwords : RegisterStart(r, u, p)
    \/ \E r \in Reqs : RegisterResume(r)
    \/ \E r \in Reqs, u \in Usernames, p \in Passwords : LoginStart(r, u, p)
    \/ \E r \in Reqs : LoginResume(r)
    \/ \E h \in Headers : Authorize(h)
    \/ \E d \in Jumps : Tick(d)

Spec == Init /\ [][Next]_vars

\* the handlers that suspend at an `await`; Authorize and the clock touch
\* neither the suspended handlers nor the store
NextAwaiting ==
    \/ \E r \in Reqs, u \in Usernames, p \in Passwords : RegisterStart(r, u, p)
    \/ \E r \in Reqs : RegisterResume(r)
    \/ \E r \in Reqs, u \in Usernames, p \in Passwords : LoginStart(r, u, p)
    \/ \E r \in Reqs : LoginResume(r)

\* a settled bcrypt promise is eventually picked up by the event loop, which
\* then runs the rest of the handler
FairSpec ==
    /\ Init
    /\ [][NextAwaiting]_vars
    /\ \A r \in Reqs : WF_vars(LoginResume(r))
    /\ \A r \in Reqs : WF_vars(RegisterResume(r))

(* ------------------------------- claims -------------------------------- *)

\* C1: of the Register requests for one username that are in flight together,
\* exactly one succeeds and the others get 409: no username is ever the
\* subject of two successful (201) Register responses.
C1_OneSuccessPerUsername ==
    \A i, j \in DOMAIN registered :
        i # j => registered[i][1] # registered[j][1]

\* C2: in every reachable state no two distinct account records of the store
\* have the same username.
C2_UniqueUsernames ==
    \A i, j \in DOMAIN users :
        i # j => users[i].username # users[j].username

\* C3: in every reachable state the ids of the store are pairwise distinct, and
\* a record inserted later has an id strictly greater than the id of every
\* record inserted before it (the store is in insertion order).
C3_IdsDistinctIncreasing ==
    /\ \A i, j \in DOMAIN users : i # j => users[i].id # users[j].id
    /\ \A i, j \in DOMAIN users : i < j => users[i].id < users[j].id

\* two Register requests interleaved so that both inserted a record for the
\* same username
C3_Witness ==
    /\ Len(users) = 2
    /\ users[1].username = users[2].username
    /\ last.op = "register" /\ last.changed

\* C4 as stated: a Register for a username that already had a successful
\* Register when it arrived returns 409 whatever its password, is never
\* suspended at the hashing step, and adds no record.
C4_LaterRegisterIs409 ==
    /\ \A r \in Reqs : req[r].pc = "hashing" => ~req[r].prior.user
    /\ (last.op = "register" /\ last.prior.user)
         => (last.res.status = 409 /\ ~last.changed)

\* C4 amended: a Register with a non-empty password for a username that already
\* had a successful Register when it arrived returns 409 whatever that password
\* is, is never suspended at the hashing step, and adds no record.
C4_LaterValidRegisterIs409 ==
    /\ \A r \in Reqs : req[r].pc = "hashing" => ~req[r].prior.user
    /\ (last.op = "register" /\ last.prior.user /\ last.password # "")
         => (last.res.status = 409 /\ ~last.changed)

\* a later Register for a registered username with a password other than the
\* registered one got 409
C4_Witness ==
    /\ last.op = "register" /\ last.prior.user /\ ~last.prior.cred
    /\ last.password # ""
    /\ last.res.status = 409

\* C5: a Login with exactly the credentials of an earlier successful Register
\* (whose hash comparison did not fail internally) returns 200 with a token, and
\* Authorize with that token returns the id and username of an account that
\* was created with those credentials.
C5_RoundTrip ==
    (last.op = "login" /\ last.prior.cred /\ ~last.threw)
      => /\ last.res.status = 200
         /\ last.res.token # NoToken
         /\ LET a == AuthorizeRes(Bearer(last.res.token), JWT_SECRET, last.res.token.iat)
            IN  /\ a.status = 200
                /\ \E i \in DOMAIN users :
                     /\ users[i].id = a.user.id
                     /\ users[i].username = a.user.username
                     /\ users[i].username = last.username
                     /\ BcryptCompare(last.password, users[i].password)

C7_AuthorizeFailures ==
    last.op = "authorize"
      => LET v == JwtVerify(last.header.tok, JWT_SECRET, last.at)
         IN  /\ last.header.kind = "absent"
                  => /\ last.res.status = 403
                     /\ last.res.user = NoClaims
                     /\ last.res.message # ProtectedRes(NoClaims).message
             /\ (last.header.kind # "absent"
                   /\ v.err \in {"Malformed", "InvalidSignature", "Expired"})
                  => /\ last.res.status = 401
                     /\ last.res = BadTokenRes
                     /\ last.res.user = NoClaims
                     /\ last.res.message # ProtectedRes(NoClaims).message

\* a token the service issued was presented at or after its expiry and got 401
C7_Witness ==
    /\ last.op = "authorize"
    /\ last.header.kind = "bearer"
    /\ last.header.tok \in issued
    /\ last.at >= last.header.tok.exp
    /\ last.res.status = 401

\* C8: an issued token expires TTL (one hour) after it was issued; Authorize
\* with it at any time strictly after the expiry gets 401 without claims, and
\* Authorize one second before the expiry gets 200 with the token's claims.
\* This holds of the last Authorize answered and of an Authorize made now.
C8_ExpiryBoundary ==
    /\ \A t \in issued :
         /\ t.exp = t.iat + 3600
         /\ now > t.exp
              => AuthorizeRes(Bearer(t), JWT_SECRET, now) = Res(401, "Token inválido")
         /\ now = t.exp - 1
              => /\ AuthorizeRes(Bearer(t), JWT_SECRET, now).status = 200
                 /\ AuthorizeRes(Bearer(t), JWT_SECRET, now).user = Claims(t)
    /\ (last.op = "authorize" /\ last.header.kind = "bearer"
          /\ last.header.tok \in issued)
         => /\ last.at > last.header.tok.exp
                 => (last.res.status = 401 /\ last.res.user = NoClaims)
            /\ last.at = last.header.tok.exp - 1
                 => (last.res.status = 200 /\ last.res.user = Claims(last.header.tok))

\* an issued token was accepted one second before its expiry, and the clock is
\* now strictly after the expiry
C8_Witness ==
    /\ last.op = "authorize"
    /\ last.header.kind = "bearer"
    /\ last.header.tok \in issued
    /\ last.at = last.header.tok.exp - 1
    /\ last.res.status = 200
    /\ now > last.header.tok.exp

\* C9: Authorize does not consume a token: whatever requests were handled
\* before, Authorize with an issued token that has not expired succeeds and
\* returns that token's claims, both for the last Authorize answered and for
\* an Authorize made now (in particular right after a successful one).
C9_AuthorizeRepeatable ==
    /\ \A t \in issued :
         now < t.exp => AuthorizeRes(Bearer(t), JWT_SECRET, now) = ProtectedRes(Claims(t))
    /\ (last.op = "authorize" /\ last.header.kind = "bearer"
          /\ last.header.tok \in issued /\ last.at < last.header.tok.exp)
         => last.res = ProtectedRes(Claims(last.header.tok))

\* a token was accepted by the last request, later than it was issued, and is
\* still unexpired now, with the store grown since the token's account
C9_Witness ==
    /\ last.op = "authorize"
    /\ last.header.kind = "bearer"
    /\ last.header.tok \in issued
    /\ last.res.status = 200
    /\ last.at > last.header.tok.iat
    /\ now > last.at
    /\ now < last.header.tok.exp
    /\ Len(users) > last.header.tok.id

\* C10: a Register answered with a failure (400, 409 or 500) did not change
\* the store, and a Login answered with a failure (400, 401 or 500) carries no
\* token; no Register or Login is answered with any other failure status.
C10_NoPartialState ==
    /\ (last.op = "register" /\ last.res.status # 201)
         => (last.res.status \in {400, 409, 500} /\ ~last.changed)
    /\ (last.op = "login" /\ last.res.status # 200)
         => (last.res.status \in {400, 401, 500} /\ last.res.token = NoToken)

\* a Register whose hashing threw was answered 500 while the store already
\* held an account
C10_Witness ==
    /\ last.op = "register"
    /\ last.threw
    /\ last.res.status = 500
    /\ Len(users) > 0

\* C11: a Register or Login with a missing or empty username or password is
\* answered 400 in every state of the store, before the store is consulted:
\* it is never suspended at an `await`, never gets 409 or 401, changes nothing
\* and carries no token.
C11_ValidationFirst ==
    /\ \A r \in Reqs :
         req[r].pc # "idle" => ~(req[r].username = "" \/ req[r].password = "")
    /\ (last.op \in {"register", "login"}
          /\ (last.username = "" \/ last.password = ""))
         => /\ last.res.status = 400
            /\ ~last.changed
            /\ last.user = NoUser
            /\ last.res.token = NoToken

\* a Register for an already registered username with an empty password got 400
C11_Witness ==
    /\ last.op = "register"
    /\ last.prior.user
    /\ last.username # ""
    /\ last.password = ""
    /\ last.res.status = 400

C13_ThrowIsInternal ==
    (last.op \in {"register", "login"} /\ last.threw)
      => /\ last.res.status = 500
         /\ last.res.message = "Error interno del servidor"
         /\ ~last.changed
         /\ last.res.token = NoToken

\* a Login for a registered user with the right password whose comparison
\* threw was answered 500
C13_Witness ==
    /\ last.op = "login"
    /\ last.threw
    /\ last.user # NoUser
    /\ BcryptCompare(last.password, last.user.password)
    /\ last.res.status = 500

\* C14: a Register hashes before its duplicate check, and its duplicate check
\* and its insert are one atomic step: while a Register has made its check
\* and not yet its insert, the only request step taken is that Register's own
\* insert (or its failure), so no other request starts, resumes or is answered.
C14_CheckInsertAtomic ==
    [][\A r \in Reqs :
         (req[r].pc = "hashing" /\ (req' # req \/ last' # last))
           => req'[r].pc # "hashing"]_vars

\* C15: a Login is answered with a token only if the account it looked up has
\* the given username and a hash that verifies the given password; the token
\* carries exactly that account's id and username; and every token ever
\* issued names the id and username of an account in the store.
C15_TokenNamesAccount ==
    /\ (last.op = "login" /\ (last.res.token # NoToken \/ last.res.status = 200))
         => /\ last.res.status = 200
            /\ last.user # NoUser
            /\ last.user.username = last.username
            /\ BcryptCompare(last.password, last.user.password)
            /\ last.res.token.id = last.user.id
            /\ last.res.token.username = last.user.username
            /\ \E i \in DOMAIN users : users[i] = last.user
    /\ \A t \in issued :
         \E i \in DOMAIN users : users[i].id = t.id /\ users[i].username = t.username

\* a Login for the second of two accounts with different usernames was
\* answered with a token
C15_Witness ==
    /\ last.op = "login"
    /\ last.res.status = 200
    /\ Len(users) = 2
    /\ users[1].username # users[2].username
    /\ last.res.token.id = 2
    /\ last.res.token \in issued

\* C16: the store only grows by appending: a step either leaves the store as
\* it is, or it is a Register answered 201 that appends exactly one record
\* after the existing ones, which stay as they were; Login, Authorize and every
\* failed Register leave the store unchanged, and no record is removed.
C16_AppendOnly ==
    [][\/ users' = users
       \/ /\ Len(users') = Len(users) + 1
          /\ SubSeq(users', 1, Len(users)) = users
          /\ last'.op = "register"
          /\ last'.res.status = 201
          /\ last'.changed]_vars

\* a second account was appended behind a first one with another username
\* and another password hash
C16_Witness ==
    /\ Len(users) = 2
    /\ users[1].username # users[2].username
    /\ users[1].password # users[2].password
    /\ last.op = "register"
    /\ last.res.status = 201

\* the store as it was when it held only its first k records
StoreAt(k) == SubSeq(users, 1, k)

\* C17: the outcome of Authorize for a token at a time does not depend on the
\* store: for every header a client can send, the response against the
\* current store equals the response against every earlier store (before the
\* later registrations, down to the empty store), and the response recorded
\* for the last Authorize is the response in every one of those stores.
C17_StoreIndependent ==
    /\ \A h \in Headers : \A k \in 0..Len(users) :
         Protegido(StoreAt(k), h, JWT_SECRET, now) = Protegido(users, h, JWT_SECRET, now)
    /\ last.op = "authorize"
         => \A k \in 0..Len(users) :
              Protegido(StoreAt(k), last.header, JWT_SECRET, last.at) = last.res

\* an issued token was accepted, and the store holds a second account besides
\* the token's own
C17_Witness ==
    /\ last.op = "authorize"
    /\ last.res.status = 200
    /\ last.header.tok \in issued
    /\ Len(users) = 2
    /\ \E i \in DOMAIN users : users[i].username # last.header.tok.username

\* C18: a request suspended at password hashing or hash comparison blocks no
\* unrelated request: while it waits, every Authorize can be answered, a Login
\* and a Register for any other username can start (the Register unless the
\* store is at its bound), and every other suspended request can resume and be
\* answered.
C18_NotBlocked ==
    \A r \in Reqs :
      req[r].pc \in {"hashing", "comparing"}
        => /\ \A h \in Headers : ENABLED Authorize(h)
           /\ (\E q \in Reqs : req[q].pc = "idle")
                => \E q \in Reqs :
                     \A u \in Usernames \ {"", req[r].username} :
                       \A p \in Passwords \ {""} :
                         /\ ENABLED LoginStart(q, u, p)
                         /\ \/ ENABLED RegisterStart(q, u, p)
                            \/ Len(users) + Pending("hashing") >= MaxUsers
           /\ \A q \in Reqs \ {r} :
                /\ req[q].pc = "comparing" => ENABLED LoginResume(q)
                /\ req[q].pc = "hashing" => ENABLED RegisterResume(q)

\* a Register and a Login for different usernames are suspended together: the
\* one that arrived second started while the first was waiting
C18_Witness ==
    \E r, q \in Reqs :
      /\ req[r].pc = "hashing"
      /\ req[q].pc = "comparing"
      /\ req[r].username # req[q].username

\* one step of the login in slot r, seen from outside: it is suspended only after
\* it was validated and its user looked up, without a response; once suspended
\* it keeps its locals until the one step that answers it and ends it
LoginStep(r) ==
    /\ (req[r].pc # "comparing" /\ req'[r].pc = "comparing")
         => /\ req[r].pc = "idle"
            /\ req'[r].username # "" /\ req'[r].password # ""
            /\ req'[r].user # NoUser
            /\ req'[r].user = Find(users, req'[r].username)
            /\ last' = last
    /\ (req[r].pc = "comparing" /\ req'[r] # req[r])
         => /\ req'[r].pc = "idle"
            /\ last'.op = "login"
            /\ last'.username = req[r].username
            /\ last'.user = req[r].user
            /\ \/ last'.res.status = 200 /\ last'.res.token # NoToken
               \/ last'.res.status \in {401, 500} /\ last'.res.token = NoToken
    /\ (last' # last /\ last'.op = "login" /\ req' = req)
         => /\ last'.res.status \in {400, 401}
            /\ last'.res.token = NoToken
            /\ last'.user = NoUser

\* C19: a Login goes through validation and lookup before it waits for the
\* comparison, is never sent back to an earlier state and never retried, gets
\* exactly one response (a token, or a rejection) in the step that ends it,
\* and, once it waits for the comparison, is eventually answered when settled
\* promises are eventually resumed.
C19_LoginSinglePass ==
    /\ [][\A r \in Reqs : LoginStep(r)]_vars
    /\ \A r \in Reqs : (req[r].pc = "comparing") ~> (req[r].pc = "idle")

\* a Login that waited for its comparison was answered with a token while a
\* Register is still waiting for its hash
C19_Witness ==
    /\ last.op = "login"
    /\ last.user # NoUser
    /\ last.res.status = 200
    /\ \E r \in Reqs : req[r].pc = "hashing"

====
